---- MODULE Spec2Model ----
(***************************************************************************)
(* The client-side media-verification workflow of Veritrust: the Upload    *)
(* component (web-client/src/upload/Upload.jsx) mounted by App             *)
(* (web-client/src/App.jsx).  Nullable JavaScript values are sequences of  *)
(* length at most one: <<>> is null/undefined, <<v>> is the value v.       *)
(***************************************************************************)
EXTENDS Integers, Sequences, FiniteSets, Bags, TLC

\* ------------------------------------------------------------------ bounds
\* number of times the upload view may be entered (Upload instances)
MaxInst == 2
\* number of FileReader loads that may be pending at once
MaxReads == 1

\* ------------------------------------------------------- JavaScript values
NULL == <<>>

Some(v) == <<v>>

\* String.prototype.startsWith
StartsWith(s, p) ==
  /\ Len(s) >= Len(p)
  /\ SubSeq(s, 1, Len(p)) = p

\* truthiness of a string: only the empty string is falsy
TruthyStr(s) == s # ""

\* a || b on strings
OrStr(a, b) == IF TruthyStr(a) THEN a ELSE b

\* truthiness of a nullable object (null is falsy, every object is truthy)
Truthy(o) == o # NULL

\* ------------------------------------------------------------------- files
\* the prefix tested by handleFileSelect, as characters
VideoPrefix == <<"v", "i", "d", "e", "o", "/">>

\* candidate files the user can pick or drop: name and declared MIME type
Files ==
  { [name |-> "a.mp4",  type |-> <<"v", "i", "d", "e", "o", "/", "m", "p", "4">>],
    [name |-> "b.webm", type |-> <<"v", "i", "d", "e", "o", "/", "w", "e", "b", "m">>],
    [name |-> "c.png",  type |-> <<"i", "m", "a", "g", "e", "/", "p", "n", "g">>],
    [name |-> "e.bin",  type |-> <<>>] }

\* what a picker change event carries: a file, or nothing (files[0] undefined)
Candidates == {NULL} \cup {Some(f) : f \in Files}

\* the condition of handleFileSelect
IsVideoAnyFile(selectedFile) == Truthy(selectedFile)

IsVideo(selectedFile) ==
  /\ Truthy(selectedFile)
  /\ StartsWith(selectedFile[1].type, VideoPrefix)

\* ---------------------------------------------------------------- messages
ValidationMsg == "Please select a valid video file"

AnalysisFailedMsg == "Analysis failed"

BackendFallbackMsg == "Error analyzing video. Make sure the backend is running."

\* message of the SyntaxError thrown by response.json() on an unparseable body
SyntaxErrorMsg == "Unexpected token < in JSON at position 0"

\* message of the TypeError thrown by reading a property of null
NullTypeErrorMsg == "Cannot read properties of null"

\* messages of the exception fetch rejects with
NetworkMessages == {"Failed to fetch", ""}

\* ------------------------------------------------------ service responses
\* an evidence frame; score and confidence, numbers in [0,1], are held in
\* ten-thousandths (9847 is 0.9847)
Frame(n, s, d) ==
  [image |-> n, frame_number |-> n, score |-> s, detection_frame |-> d]

F0 == Frame(10, 9847, FALSE)

F1 == Frame(25, 9720, TRUE)

F2 == Frame(40, 9995, FALSE)

\* a parsed success body; has_frames is FALSE when gradcam_frames is missing
Result(p, c, fname, hasFrames, frames) ==
  [prediction |-> p, confidence |-> c, filename |-> fname,
   has_frames |-> hasFrames, gradcam_frames |-> frames]

\* the success bodies the service may answer a request for fname with
ResultsFor(fname) ==
  { Result("FAKE", 9720, fname, TRUE, <<F0, F1, F2>>),
    Result("REAL", 9847, fname, FALSE, <<>>),
    Result("SUSPICIOUS", 5555, fname, TRUE, <<>>),
    Result("UNKNOWN", 0, fname, TRUE, <<F1>>),
    Result("fake", 10000, fname, FALSE, <<>>) }

\* values of the detail field of an error body: missing, empty, or a string
Details == {NULL, Some(""), Some("file too large"), Some("model unavailable")}

NoBody == [kind |-> "none", detail |-> NULL, data |-> NULL]

Unparseable == [kind |-> "unparseable", detail |-> NULL, data |-> NULL]

JsonNull == [kind |-> "null", detail |-> NULL, data |-> NULL]

ErrorBody(d) == [kind |-> "object", detail |-> d, data |-> NULL]

SuccessBody(r) == [kind |-> "object", detail |-> NULL, data |-> Some(r)]

\* how a request for a file named fname may settle
Outcomes(fname) ==
  { [type |-> "network", ok |-> FALSE, message |-> m, body |-> NoBody] :
        m \in NetworkMessages }
  \cup
  { [type |-> "http", ok |-> FALSE, message |-> "", body |-> b] :
        b \in {Unparseable, JsonNull} \cup {ErrorBody(d) : d \in Details} }
  \cup
  { [type |-> "http", ok |-> TRUE, message |-> "", body |-> b] :
        b \in {Unparseable, JsonNull} \cup {SuccessBody(r) : r \in ResultsFor(fname)} }

NoOutcome == [type |-> "none", ok |-> FALSE, message |-> "", body |-> NoBody]

\* ------------------------------------------------------------------- state
VARIABLES
  showUpload,             \* App: which view is shown
  inst,                   \* number of the mounted (or last mounted) Upload
  file,                   \* Upload state
  preview,
  loading,
  result,
  error,
  dragActive,
  selectedVisualization,
  requests,               \* bag of the fetch calls not yet settled: [file, inst]
  reads,                  \* bag of the files whose FileReader load is pending
  openIndex,              \* Faq state: the item whose answer is shown
  ev,                     \* the event handled last
  abandoned               \* history: the X control was used since the
                          \* outstanding request was issued

vars == <<showUpload, inst, file, preview, loading, result, error, dragActive,
          selectedVisualization, requests, reads, openIndex, ev, abandoned>>

Event(k, c, r, o, i) == [kind |-> k, cand |-> c, req |-> r, out |-> o, idx |-> i]

\* the useState initial values of Upload
UploadInit ==
  /\ file = NULL
  /\ preview = NULL
  /\ loading = FALSE
  /\ result = NULL
  /\ error = NULL
  /\ dragActive = FALSE
  /\ selectedVisualization = 0

UploadInitNext ==
  /\ file' = NULL
  /\ preview' = NULL
  /\ loading' = FALSE
  /\ result' = NULL
  /\ error' = NULL
  /\ dragActive' = FALSE
  /\ selectedVisualization' = 0

Init ==
  /\ showUpload = FALSE
  /\ inst = 0
  /\ UploadInit
  /\ requests = EmptyBag
  /\ reads = EmptyBag
  /\ openIndex = NULL
  /\ ev = Event("init", NULL, NULL, NoOutcome, 0)
  /\ abandoned = FALSE

\* ------------------------------------------------------- what is rendered
\* the upload form (drop zone, picker, submit button) is the !result branch
FormRenderedAlways == showUpload

FormRendered == showUpload /\ ~Truthy(result)

ResultRendered == showUpload /\ Truthy(result)

\* disabled={!file || loading}
SubmitDisabledNoLoading == ~Truthy(file)

SubmitDisabled == ~Truthy(file) \/ loading

\* the X button sits inside {file && ...} of the form
ClearRendered == FormRendered /\ Truthy(file)

\* thumbnails are rendered for a result with more than one frame
ThumbnailsRendered ==
  /\ ResultRendered
  /\ result[1].has_frames
  /\ Len(result[1].gradcam_frames) > 1

\* the Grad-CAM block, which dereferences the selected frame (311)
GradcamRenderedIfPresent == ResultRendered /\ result[1].has_frames

GradcamRendered ==
  /\ ResultRendered
  /\ result[1].has_frames
  /\ Len(result[1].gradcam_frames) > 0

\* result.gradcam_frames[selectedVisualization] of the main display (329-345),
\* NULL when the index names no element of the array
DisplayedFrameOneBased ==
  IF selectedVisualization \in DOMAIN result[1].gradcam_frames
    THEN Some(result[1].gradcam_frames[selectedVisualization])
    ELSE NULL

DisplayedFrame ==
  IF selectedVisualization + 1 \in DOMAIN result[1].gradcam_frames
    THEN Some(result[1].gradcam_frames[selectedVisualization + 1])
    ELSE NULL

\* result.gradcam_frames?.length || 0 (384)
FrameCount ==
  IF result[1].has_frames THEN Len(result[1].gradcam_frames) ELSE 0

\* the two branches of App's conditional (20-30): the Upload, or the landing
\* page (Hero, About, Faq)
UploadRendered == showUpload

LandingRendered == ~showUpload

\* the requests issued by the mounted instance and not yet settled
OutstandingAnyInstance == {r \in BagToSet(requests) : showUpload}

Outstanding == {r \in BagToSet(requests) : showUpload /\ r.inst = inst}

\* how many of them there are
NumOutstanding == BagCardinality([r \in Outstanding |-> CopiesIn(r, requests)])

\* --------------------------------------------------------------- App 8-34
\* Hero's onStart: setShowUpload(true) mounts a fresh Upload
Start ==
  /\ ~showUpload
  /\ inst < MaxInst
  /\ showUpload' = TRUE
  /\ inst' = inst + 1
  /\ UploadInitNext
  /\ UNCHANGED <<requests, reads>>
  /\ ev' = Event("start", NULL, NULL, NoOutcome, 0)
  /\ openIndex' = NULL
  /\ abandoned' = FALSE

\* Upload's onBack: setShowUpload(false) unmounts Upload, its state is dropped.
\* The readers of the unmounted instance can only call the setPreview of that
\* dropped state, so they leave the model with it; its requests stay, tagged
\* with the instance that issued them.
Back ==
  /\ showUpload
  /\ showUpload' = FALSE
  /\ UploadInitNext
  /\ reads' = EmptyBag
  /\ UNCHANGED <<inst, requests>>
  /\ ev' = Event("back", NULL, NULL, NoOutcome, 0)
  /\ openIndex' = NULL
  /\ abandoned' = FALSE

\* ------------------------------------------------- Faq (part_000) 4-32
\* the number of entries of faqs (7-28)
NumFaqs == 5

\* the answer of item index is rendered: openIndex === index (112), in the
\* Faq of the landing page
AnswerRendered(index) == LandingRendered /\ openIndex = Some(index)

\* toggleFaq (30-32), the onClick of the question of item index (81); Faq
\* is mounted with the landing page, Start and Back drop and renew its state
toggleFaqAlwaysOpens(index) ==
  /\ LandingRendered
  /\ openIndex' = Some(index)
  /\ UNCHANGED <<showUpload, inst, file, preview, loading, result, error,
                 dragActive, selectedVisualization, requests, reads>>
  /\ ev' = Event("toggle", NULL, NULL, NoOutcome, index)
  /\ UNCHANGED abandoned

toggleFaq(index) ==
  /\ LandingRendered
  /\ openIndex' = (IF openIndex = Some(index) THEN NULL ELSE Some(index))
  /\ UNCHANGED <<showUpload, inst, file, preview, loading, result, error,
                 dragActive, selectedVisualization, requests, reads>>
  /\ ev' = Event("toggle", NULL, NULL, NoOutcome, index)
  /\ UNCHANGED abandoned

\* --------------------------------------------------- handleFileSelect 16-31
\* the state handleFileSelect writes; it never touches dragActive
handleFileSelect(selectedFile) ==
  /\ IF IsVideo(selectedFile)
       THEN /\ file' = selectedFile
            /\ error' = NULL
            /\ result' = NULL
            /\ reads' = reads (+) SetToBag({selectedFile[1]})
       ELSE /\ error' = Some(ValidationMsg)
            /\ UNCHANGED <<file, result, reads>>
  /\ UNCHANGED <<preview, loading, selectedVisualization>>

\* a valid selection starts a reader; at most MaxReads are pending
ReadsAllow(c) == IsVideo(c) => BagCardinality(reads) < MaxReads

\* the file input's onChange (168-173)
Pick(c) ==
  /\ FormRendered
  /\ ReadsAllow(c)
  /\ handleFileSelect(c)
  /\ UNCHANGED <<showUpload, inst, dragActive, requests>>
  /\ ev' = Event("pick", c, NULL, NoOutcome, 0)
  /\ UNCHANGED openIndex
  /\ UNCHANGED abandoned

\* --------------------------------------------------------- handleDrag 34-42
DragTypes == {"dragenter", "dragover", "dragleave"}

handleDragEnterOnly(type) ==
  /\ FormRendered
  /\ dragActive' = (IF type = "dragenter" THEN TRUE
                    ELSE IF type = "dragleave" THEN FALSE
                    ELSE dragActive)
  /\ UNCHANGED <<showUpload, inst, file, preview, loading, result, error,
                 selectedVisualization, requests, reads>>
  /\ ev' = Event(type, NULL, NULL, NoOutcome, 0)
  /\ UNCHANGED openIndex
  /\ UNCHANGED abandoned

handleDrag(type) ==
  /\ FormRendered
  /\ dragActive' = (IF type \in {"dragenter", "dragover"} THEN TRUE
                    ELSE IF type = "dragleave" THEN FALSE
                    ELSE dragActive)
  /\ UNCHANGED <<showUpload, inst, file, preview, loading, result, error,
                 selectedVisualization, requests, reads>>
  /\ ev' = Event(type, NULL, NULL, NoOutcome, 0)
  /\ UNCHANGED openIndex
  /\ UNCHANGED abandoned

\* --------------------------------------------------------- handleDrop 44-52
handleDropUnchecked(c) ==
  /\ FormRendered
  /\ ReadsAllow(c)
  /\ dragActive' = FALSE
  /\ IF Truthy(c)
       THEN /\ file' = c
            /\ error' = NULL
            /\ result' = NULL
            /\ reads' = reads (+) SetToBag({c[1]})
            /\ UNCHANGED <<preview, loading, selectedVisualization>>
       ELSE UNCHANGED <<file, preview, loading, result, error,
                        selectedVisualization, reads>>
  /\ UNCHANGED <<showUpload, inst, requests>>
  /\ ev' = Event("drop", c, NULL, NoOutcome, 0)
  /\ UNCHANGED openIndex
  /\ UNCHANGED abandoned

handleDrop(c) ==
  /\ FormRendered
  /\ ReadsAllow(c)
  /\ dragActive' = FALSE
  /\ IF Truthy(c)
       THEN handleFileSelect(c)
       ELSE UNCHANGED <<file, preview, loading, result, error,
                        selectedVisualization, reads>>
  /\ UNCHANGED <<showUpload, inst, requests>>
  /\ ev' = Event("drop", c, NULL, NoOutcome, 0)
  /\ UNCHANGED openIndex
  /\ UNCHANGED abandoned

\* ------------------------------------------- FileReader onload 24-26
ReaderOnloadClearsError(r) ==
  /\ BagIn(r, reads)
  /\ reads' = reads (-) SetToBag({r})
  /\ preview' = Some(r.name)
  /\ error' = NULL
  /\ UNCHANGED <<showUpload, inst, file, loading, result, dragActive,
                 selectedVisualization, requests>>
  /\ ev' = Event("read", Some(r), NULL, NoOutcome, 0)
  /\ UNCHANGED openIndex
  /\ UNCHANGED abandoned

ReaderOnload(r) ==
  /\ BagIn(r, reads)
  /\ reads' = reads (-) SetToBag({r})
  /\ preview' = Some(r.name)
  /\ UNCHANGED <<showUpload, inst, file, loading, result, error, dragActive,
                 selectedVisualization, requests>>
  /\ ev' = Event("read", Some(r), NULL, NoOutcome, 0)
  /\ UNCHANGED openIndex
  /\ UNCHANGED abandoned

\* ------------------------------------------------------- handleSubmit 55-70
\* the request handleSubmit sends: the file of the render it was created in
Request == [file |-> file[1], inst |-> inst]

\* handleSubmit up to its first await
handleSubmitKeepsError ==
  IF ~Truthy(file)
    THEN UNCHANGED <<loading, error, requests>>
    ELSE /\ loading' = TRUE
         /\ UNCHANGED error
         /\ requests' = requests (+) SetToBag({Request})

handleSubmitNoLoading ==
  IF ~Truthy(file)
    THEN UNCHANGED <<loading, error, requests>>
    ELSE /\ UNCHANGED loading
         /\ error' = NULL
         /\ requests' = requests (+) SetToBag({Request})

handleSubmit ==
  IF ~Truthy(file)
    THEN UNCHANGED <<loading, error, requests>>
    ELSE /\ loading' = TRUE
         /\ error' = NULL
         /\ requests' = requests (+) SetToBag({Request})

\* the user's submit: it reaches handleSubmit only through the rendered form
\* and its enabled submit button (155, 231-234)
Submit ==
  /\ showUpload
  /\ IF FormRendered /\ ~SubmitDisabled
       THEN handleSubmit
       ELSE UNCHANGED <<loading, error, requests>>
  /\ UNCHANGED <<showUpload, inst, file, preview, result, dragActive,
                 selectedVisualization, reads>>
  /\ ev' = Event("submit", NULL, NULL, NoOutcome, 0)
  /\ UNCHANGED openIndex
  /\ UNCHANGED abandoned

\* ------------------------------------------------------- handleSubmit 72-90
\* the message of the exception the try block ends with, NULL when it
\* completes: fetch rejecting (67), response.json() rejecting (73, 77), the
\* read of errorData.detail on null (74), the thrown Error (74), the read of
\* data.gradcam_frames on null (81)
ThrownIgnoresDetail(o) ==
  IF o.type = "network" THEN Some(o.message)
  ELSE IF o.body.kind = "unparseable" THEN Some(SyntaxErrorMsg)
  ELSE IF o.body.kind = "null" THEN Some(NullTypeErrorMsg)
  ELSE IF ~o.ok THEN Some(AnalysisFailedMsg)
  ELSE NULL

Thrown(o) ==
  IF o.type = "network" THEN Some(o.message)
  ELSE IF o.body.kind = "unparseable" THEN Some(SyntaxErrorMsg)
  ELSE IF o.body.kind = "null" THEN Some(NullTypeErrorMsg)
  ELSE IF ~o.ok
    THEN Some(OrStr(IF o.body.detail = NULL THEN "" ELSE o.body.detail[1],
                    AnalysisFailedMsg))
  ELSE NULL

\* setResult(data) is reached on an ok response whose body parses (77-78)
SetsResultIfFrames(o) ==
  /\ o.type = "http"
  /\ o.ok
  /\ o.body.kind = "object"
  /\ o.body.data[1].has_frames
  /\ Len(o.body.data[1].gradcam_frames) > 0

SetsResult(o) == o.type = "http" /\ o.ok /\ o.body.kind \in {"null", "object"}

\* the condition of line 81
HasFrames(data) == data.has_frames /\ Len(data.gradcam_frames) > 0

\* the error message stored by the catch clause (85)
Caught(message) == OrStr(message, BackendFallbackMsg)

\* handleSubmit from the settling of fetch to the end of finally
handleSubmitSettleKeepsLoading(o) ==
  /\ result' = (IF SetsResult(o) THEN o.body.data ELSE result)
  /\ selectedVisualization' =
       (IF SetsResult(o) /\ Truthy(o.body.data) /\ HasFrames(o.body.data[1])
          THEN 0 ELSE selectedVisualization)
  /\ error' = (IF Thrown(o) # NULL THEN Some(Caught(Thrown(o)[1])) ELSE error)
  /\ loading' = (IF Thrown(o) = NULL THEN FALSE ELSE loading)

handleSubmitSettle(o) ==
  /\ result' = (IF SetsResult(o) THEN o.body.data ELSE result)
  /\ selectedVisualization' =
       (IF SetsResult(o) /\ Truthy(o.body.data) /\ HasFrames(o.body.data[1])
          THEN 0 ELSE selectedVisualization)
  /\ error' = (IF Thrown(o) # NULL THEN Some(Caught(Thrown(o)[1])) ELSE error)
  /\ loading' = FALSE

\* the request of the mounted instance settles with outcome o
SettleRetries(r, o) ==
  /\ r \in Outstanding
  /\ o \in Outcomes(r.file.name)
  /\ requests' = (IF Thrown(o) # NULL /\ Truthy(file)
                    THEN (requests (-) SetToBag({r})) (+) SetToBag({Request})
                    ELSE requests (-) SetToBag({r}))
  /\ handleSubmitSettle(o)
  /\ UNCHANGED <<showUpload, inst, file, preview, dragActive, reads>>
  /\ ev' = Event("response", NULL, Some(r), o, 0)
  /\ UNCHANGED openIndex
  /\ abandoned' = FALSE

Settle(r, o) ==
  /\ r \in Outstanding
  /\ o \in Outcomes(r.file.name)
  /\ requests' = requests (-) SetToBag({r})
  /\ handleSubmitSettle(o)
  /\ UNCHANGED <<showUpload, inst, file, preview, dragActive, reads>>
  /\ ev' = Event("response", NULL, Some(r), o, 0)
  /\ UNCHANGED openIndex
  /\ abandoned' = FALSE

\* a request of an unmounted instance settles: the state setters of an
\* unmounted component do nothing, whatever the outcome
SettleUnmounted(r) ==
  /\ r \in BagToSet(requests) \ Outstanding
  /\ requests' = requests (-) SetToBag({r})
  /\ UNCHANGED <<showUpload, inst, file, preview, loading, result, error,
                 dragActive, selectedVisualization, reads>>
  /\ ev' = Event("stale", NULL, Some(r), NoOutcome, 0)
  /\ UNCHANGED openIndex
  /\ UNCHANGED abandoned

\* ------------------------------------------------ clear-file button 199-209
ClearFileCancels ==
  /\ ClearRendered
  /\ file' = NULL
  /\ preview' = NULL
  /\ result' = NULL
  /\ loading' = FALSE
  /\ requests' = [r \in BagToSet(requests) \ Outstanding |-> CopiesIn(r, requests)]
  /\ UNCHANGED <<showUpload, inst, error, dragActive, selectedVisualization,
                 reads>>
  /\ ev' = Event("clear", NULL, NULL, NoOutcome, 0)
  /\ UNCHANGED openIndex
  /\ abandoned' = (abandoned \/ Outstanding # {})

ClearFile ==
  /\ ClearRendered
  /\ file' = NULL
  /\ preview' = NULL
  /\ result' = NULL
  /\ UNCHANGED <<showUpload, inst, loading, error, dragActive,
                 selectedVisualization, requests, reads>>
  /\ ev' = Event("clear", NULL, NULL, NoOutcome, 0)
  /\ UNCHANGED openIndex
  /\ abandoned' = (abandoned \/ Outstanding # {})

\* -------------------------------------------------- Analyze Another 403-414
AnalyzeAnotherKeepsSelection ==
  /\ ResultRendered
  /\ file' = NULL
  /\ preview' = NULL
  /\ result' = NULL
  /\ error' = NULL
  /\ UNCHANGED <<showUpload, inst, loading, dragActive, requests, reads,
                 selectedVisualization>>
  /\ ev' = Event("another", NULL, NULL, NoOutcome, 0)
  /\ UNCHANGED openIndex
  /\ UNCHANGED abandoned

AnalyzeAnother ==
  /\ ResultRendered
  /\ file' = NULL
  /\ preview' = NULL
  /\ result' = NULL
  /\ error' = NULL
  /\ selectedVisualization' = 0
  /\ UNCHANGED <<showUpload, inst, loading, dragActive, requests, reads>>
  /\ ev' = Event("another", NULL, NULL, NoOutcome, 0)
  /\ UNCHANGED openIndex
  /\ UNCHANGED abandoned

\* ------------------------------------------------ thumbnail onClick 352-372
SelectFrameOffByOne(idx) ==
  /\ ThumbnailsRendered
  /\ idx \in 0 .. Len(result[1].gradcam_frames) - 1
  /\ selectedVisualization' = idx + 1
  /\ UNCHANGED <<showUpload, inst, file, preview, loading, result, error,
                 dragActive, requests, reads>>
  /\ ev' = Event("frame", NULL, NULL, NoOutcome, idx)
  /\ UNCHANGED openIndex
  /\ UNCHANGED abandoned

SelectFrame(idx) ==
  /\ ThumbnailsRendered
  /\ idx \in 0 .. Len(result[1].gradcam_frames) - 1
  /\ selectedVisualization' = idx
  /\ UNCHANGED <<showUpload, inst, file, preview, loading, result, error,
                 dragActive, requests, reads>>
  /\ ev' = Event("frame", NULL, NULL, NoOutcome, idx)
  /\ UNCHANGED openIndex
  /\ UNCHANGED abandoned

\* ------------------------------------------------- result rendering 93-117
getResultColor(prediction) ==
  CASE prediction = "REAL" -> "from-green-400 to-emerald-400"
    [] prediction = "FAKE" -> "from-red-400 to-rose-400"
    [] prediction = "SUSPICIOUS" -> "from-yellow-400 to-orange-400"
    [] OTHER -> "from-cyan-400 to-purple-400"

getResultBgNoSuspicious(prediction) ==
  CASE prediction = "REAL" -> "bg-green-500/10 border-green-500/30"
    [] prediction = "FAKE" -> "bg-red-500/10 border-red-500/30"
    [] OTHER -> "bg-white/5 border-white/10"

getResultBg(prediction) ==
  CASE prediction = "REAL" -> "bg-green-500/10 border-green-500/30"
    [] prediction = "FAKE" -> "bg-red-500/10 border-red-500/30"
    [] prediction = "SUSPICIOUS" -> "bg-yellow-500/10 border-yellow-500/30"
    [] OTHER -> "bg-white/5 border-white/10"

\* the text of the h2 (285-289), without its leading glyph; each of the three
\* && expressions renders its text or nothing
Headline(prediction) ==
  <<IF prediction = "REAL" THEN "Content Verified" ELSE "",
    IF prediction = "FAKE" THEN "Deepfake Detected" ELSE "",
    IF prediction = "SUSPICIOUS" THEN "Suspicious Content" ELSE "">>

\* Number.prototype.toFixed(1) of the product x * 100, for x in
\* ten-thousandths: the product in hundredths is h = x, and toFixed gives the
\* tenth nearest to the double it is applied to.  When h ends in 5 that
\* double lies beside the midpoint of two tenths: MidpointsAbove holds the
\* values of that kind carried by the responses whose double product
\* (0.9995 * 100 is 99.95000000000000284) is not below the midpoint; the
\* others (0.5555 * 100 is 55.54999999999999716) lie below it.
MidpointsAbove == {9995}

ToFixed1Truncates(h) ==
  LET n == h \div 10
  IN ToString(n \div 10) \o "." \o ToString(n % 10)

ToFixed1(h) ==
  LET n == IF h % 10 > 5 \/ (h % 10 = 5 /\ h \in MidpointsAbove)
             THEN h \div 10 + 1
             ELSE h \div 10
  IN ToString(n \div 10) \o "." \o ToString(n % 10)

\* the confidence shown (295-297)
ConfidenceText == ToFixed1(result[1].confidence) \o "%"

\* the score shown under the main display (339-341)
ScoreText == ToFixed1(DisplayedFrame[1].score) \o "%"

\* the bullets of the Interpretation block (389-398) shown for result res:
\* the list is literal text, no field of the result is read
Interpretation(res) ==
  <<"Red/Hot areas: Regions with strongest deepfake indicators",
    "Blue/Cool areas: Regions that appear more authentic",
    "The model focuses on facial features, edges, and inconsistencies",
    "Multiple frames show consistency of detection across the video">>

\* ------------------------------- the Upload without frames (part_001)
\* The second implementation of the component, as functions of its state v
\* (its six useState fields, 5-10) and of the event it is given.
UploadInitNoFrames ==
  [file |-> NULL, preview |-> NULL, loading |-> FALSE, result |-> NULL,
   error |-> NULL, dragActive |-> FALSE]

\* handleFileSelect (15-30); the reader's onload is the event "read"
handleFileSelectNoFrames(v, selectedFile) ==
  IF Truthy(selectedFile) /\ StartsWith(selectedFile[1].type, VideoPrefix)
    THEN [v EXCEPT !.file = selectedFile, !.error = NULL, !.result = NULL]
    ELSE [v EXCEPT !.error = Some(ValidationMsg)]

\* handleDrag (33-41)
handleDragNoFrames(v, type) ==
  IF type \in {"dragenter", "dragover"} THEN [v EXCEPT !.dragActive = TRUE]
  ELSE IF type = "dragleave" THEN [v EXCEPT !.dragActive = FALSE]
  ELSE v

\* handleDrop (43-51)
handleDropNoFrames(v, c) ==
  IF Truthy(c)
    THEN handleFileSelectNoFrames([v EXCEPT !.dragActive = FALSE], c)
    ELSE [v EXCEPT !.dragActive = FALSE]

\* handleSubmit up to its first await (54-69)
handleSubmitNoFrames(v) ==
  IF ~Truthy(v.file) THEN v ELSE [v EXCEPT !.loading = TRUE, !.error = NULL]

\* the message of the exception its try block ends with (61-77): nothing
\* is read from the parsed body of an ok response
ThrownNoFrames(o) ==
  IF o.type = "network" THEN Some(o.message)
  ELSE IF o.body.kind = "unparseable" THEN Some(SyntaxErrorMsg)
  ELSE IF ~o.ok /\ o.body.kind = "null" THEN Some(NullTypeErrorMsg)
  ELSE IF ~o.ok
    THEN Some(OrStr(IF o.body.detail = NULL THEN "" ELSE o.body.detail[1],
                    AnalysisFailedMsg))
  ELSE NULL

\* handleSubmit from the settling of fetch to the end of finally (66-83)
handleSubmitSettleNoFrames(v, o) ==
  [v EXCEPT
     !.result = (IF o.type = "http" /\ o.ok /\ o.body.kind \in {"null", "object"}
                   THEN o.body.data ELSE @),
     !.error = (IF ThrownNoFrames(o) # NULL
                  THEN Some(OrStr(ThrownNoFrames(o)[1], BackendFallbackMsg))
                  ELSE @),
     !.loading = FALSE]

\* the X button (192-202), rendered in the form when a file is held
ClearFileNoFrames(v) ==
  [v EXCEPT !.file = NULL, !.preview = NULL, !.result = NULL]

\* Analyze Another (346-356)
AnalyzeAnotherNoFrames(v) ==
  [v EXCEPT !.file = NULL, !.preview = NULL, !.result = NULL, !.error = NULL]

\* what the component makes of event e: a handler runs when the element it
\* is bound to is rendered (form 140, X button 181, submit button 226,
\* result view 140) and the event is one this component has
UploadNoFrames(v, e) ==
  LET form == ~Truthy(v.result)
  IN CASE e.kind \in {"start", "back"} -> UploadInitNoFrames
       [] e.kind = "pick" /\ form -> handleFileSelectNoFrames(v, e.cand)
       [] e.kind \in DragTypes /\ form -> handleDragNoFrames(v, e.kind)
       [] e.kind = "drop" /\ form -> handleDropNoFrames(v, e.cand)
       [] e.kind = "read" -> [v EXCEPT !.preview = Some(e.cand[1].name)]
       [] e.kind = "submit" /\ form /\ Truthy(v.file) /\ ~v.loading ->
            handleSubmitNoFrames(v)
       [] e.kind = "response" -> handleSubmitSettleNoFrames(v, e.out)
       [] e.kind = "clear" /\ form /\ Truthy(v.file) -> ClearFileNoFrames(v)
       [] e.kind = "another" /\ ~form -> AnalyzeAnotherNoFrames(v)
       [] OTHER -> v

\* ---------------------------------------------------------- specification
MaxFrames == 3

Next ==
  \/ Start
  \/ Back
  \/ \E c \in Candidates : Pick(c)
  \/ \E t \in DragTypes : handleDrag(t)
  \/ \E c \in Candidates : handleDrop(c)
  \/ \E r \in BagToSet(reads) : ReaderOnload(r)
  \/ Submit
  \/ \E r \in BagToSet(requests) : \E o \in Outcomes(r.file.name) : Settle(r, o)
  \/ \E r \in BagToSet(requests) : SettleUnmounted(r)
  \/ ClearFile
  \/ AnalyzeAnother
  \/ \E i \in 0 .. MaxFrames - 1 : SelectFrame(i)
  \/ \E i \in 0 .. NumFaqs - 1 : toggleFaq(i)

Spec == Init /\ [][Next]_vars

\* the request of the mounted instance settles, with whatever outcome
SettleSome ==
  \E r \in BagToSet(requests) : \E o \in Outcomes(r.file.name) : Settle(r, o)

\* every fetch settles in the end: its promise resolves or rejects (67-70)
LiveSpec == Spec /\ WF_vars(SettleSome)

\* the steps a user takes to recover: entering the view, a selection that
\* gives Ready, a reset that gives Idle
SelectToReady ==
  /\ \E c \in Candidates : Pick(c)
  /\ file' # NULL /\ ~loading' /\ result' = NULL /\ error' = NULL

ClearToIdle == ClearFile /\ ~loading' /\ error' = NULL

\* a reader completes while no request is in flight
ReadWhenSettled == ~loading /\ \E r \in BagToSet(reads) : ReaderOnload(r)

\* Spec with fairness of the callbacks (fetch settling, reader onload) and of
\* the recovering steps of the user.  Each condition is on a subaction of
\* Next, so every finite run of Spec extends to a run of RecoverSpec: what
\* RecoverSpec reaches again and again can be reached from every reachable
\* state of Spec.
RecoverSpec ==
  /\ Spec
  /\ WF_vars(SettleSome)
  /\ WF_vars(\E r \in BagToSet(reads) : ReaderOnload(r))
  /\ SF_vars(ReadWhenSettled)
  /\ WF_vars(Start)
  /\ SF_vars(AnalyzeAnother)
  /\ SF_vars(ClearToIdle)
  /\ SF_vars(SelectToReady)

\* ------------------------------------------------------- workflow states
\* a request of the mounted instance is outstanding
InFlight == loading \/ Outstanding # {}

Idle == file = NULL /\ ~InFlight /\ result = NULL /\ error = NULL

Ready == file # NULL /\ ~InFlight /\ result = NULL /\ error = NULL

Submitting == InFlight /\ result = NULL /\ error = NULL

Resulted == result # NULL /\ error = NULL /\ ~InFlight

Failed == error # NULL /\ result = NULL /\ ~InFlight

\* the last event ran handleFileSelect on its candidate: a picker change, or
\* a drop that carries a file
Selected(e) == e.kind = "pick" \/ (e.kind = "drop" /\ e.cand # NULL)

\* the candidate is a file whose declared MIME type begins with video/
DeclaredVideo(c) ==
  /\ c # NULL
  /\ Len(c[1].type) >= 6
  /\ \A i \in 1 .. 6 : c[1].type[i] = <<"v", "i", "d", "e", "o", "/">>[i]

\* the last event was the settling of the mounted instance's request
Responded(e) == e.kind = "response"

\* ----------------------------------------------------------------- claims
\* C1: if the user clears the file with the X control while a request is
\* outstanding, the later outcome of that request is discarded: result and
\* error stay as they were.
C1_StaleOutcomeDiscarded ==
  [][(Responded(ev') /\ abandoned) => UNCHANGED <<result, error>>]_vars

\* C2: in every reachable state at most one of result and error is non-null.
C2_ResultXorError == ~(result # NULL /\ error # NULL)

\* C3 as stated: submit in any state other than Ready issues no request and
\* leaves file, loading, result, error and the frame selection unchanged.
C3_SubmitOutsideReadyNoOp ==
  [][(ev'.kind = "submit" /\ ~Ready)
       => UNCHANGED <<file, loading, result, error, selectedVisualization,
                      requests>>]_vars

\* C3 as amended: submit while no file is held, while a request is in
\* flight or while a result is present issues no request and leaves file,
\* loading, result, error and the frame selection unchanged.
C3_SubmitNoOp ==
  [][(ev'.kind = "submit" /\ (file = NULL \/ InFlight \/ result # NULL))
       => UNCHANGED <<file, loading, result, error, selectedVisualization,
                      requests>>]_vars

\* a submit was attempted while the request for an earlier file was in flight
\* and an error was showing, and changed neither
C3_Witness ==
  /\ ev.kind = "submit"
  /\ error # NULL
  /\ \E r \in Outstanding : file # NULL /\ r.file # file[1]

\* C4: at most one request of the mounted instance is outstanding in every
\* reachable state, whatever submits were attempted meanwhile.
C4_AtMostOneOutstanding == NumOutstanding <= 1

\* a submit was attempted with a request in flight and a new file held
C4_Witness ==
  /\ ev.kind = "submit"
  /\ error = NULL
  /\ NumOutstanding = 1
  /\ \E r \in Outstanding : file # NULL /\ r.file # file[1]

\* C5: selecting a file whose type begins with video/, from whatever state,
\* stores it as the current file, clears error and result, and leaves the
\* workflow in Ready.
C5_ValidSelectionReady ==
  [][(Selected(ev') /\ DeclaredVideo(ev'.cand))
       => (file' = ev'.cand /\ error' = NULL /\ result' = NULL /\ Ready')]_vars

\* C6: selecting a candidate that is missing or whose type does not begin
\* with video/ sets the validation error and leaves file, result, the
\* in-flight flag, the outstanding request and the frame selection unchanged;
\* from Idle it does not reach Ready.
C6_InvalidSelection ==
  [][(Selected(ev') /\ ~DeclaredVideo(ev'.cand))
       => /\ error' = Some(ValidationMsg)
          /\ UNCHANGED <<file, result, loading, requests,
                         selectedVisualization>>
          /\ (Idle => ~Ready')]_vars

\* an invalid candidate was refused while a different, valid file was held
C6_Witness ==
  /\ Selected(ev)
  /\ ~DeclaredVideo(ev.cand)
  /\ ev.cand # NULL
  /\ error = Some(ValidationMsg)
  /\ file # NULL

\* C7: a reset made in Resulted or in Failed leaves the workflow in Idle with
\* the frame selection at 0.
C7_ResetToIdle ==
  [][(ev'.kind \in {"clear", "another"} /\ (Resulted \/ Failed))
       => (Idle' /\ selectedVisualization' = 0)]_vars

\* the failures C8 is about: a network error, or a non-2xx response whose
\* body does not parse or carries no detail field
TransportFailure(o) ==
  \/ o.type = "network"
  \/ /\ o.type = "http"
     /\ ~o.ok
     /\ \/ o.body.kind \in {"unparseable", "null"}
        \/ o.body.kind = "object" /\ o.body.detail = NULL

\* C8: after a transport failure the stored error is a fixed fallback
\* message, not the text of the exception.
C8_GenericFallback ==
  [][(Responded(ev') /\ TransportFailure(ev'.out))
       => error' \in {Some(AnalysisFailedMsg), Some(BackendFallbackMsg)}]_vars

\* a non-2xx response whose JSON body has a non-empty string detail
ServiceFailure(o) ==
  /\ o.type = "http"
  /\ ~o.ok
  /\ o.body.kind = "object"
  /\ o.body.detail # NULL
  /\ o.body.detail[1] # ""

\* C9: after a non-2xx response with a non-empty detail the workflow is
\* Failed and the stored error is exactly that detail.
C9_DetailVerbatim ==
  [][(Responded(ev') /\ ServiceFailure(ev'.out))
       => (Failed' /\ error' = ev'.out.body.detail)]_vars

\* a response carrying a detail has settled and its detail is the error
C9_Witness ==
  /\ Responded(ev)
  /\ ServiceFailure(ev.out)
  /\ ev.out.body.detail = Some("model unavailable")
  /\ error = Some("model unavailable")
  /\ Failed

\* a submission that failed: network failure, non-success status, or a
\* success status whose body is not an analysis result
FailedOutcome(o) ==
  \/ o.type = "network"
  \/ o.type = "http" /\ ~o.ok
  \/ o.type = "http" /\ o.ok /\ o.body.kind \in {"unparseable", "null"}

\* C10: every failed submission ends in Failed: the error is a non-empty
\* message, no result is present and no request is in flight.
C10_FailureEndsFailed ==
  [][(Responded(ev') /\ FailedOutcome(ev'.out))
       => (error' # NULL /\ error'[1] # "" /\ result' = NULL /\ ~InFlight')]_vars

\* a success status with an unparseable body has ended in Failed
C10_Witness ==
  /\ Responded(ev)
  /\ ev.out.ok
  /\ ev.out.body.kind = "unparseable"
  /\ Failed

\* C11 as stated: when the request of a Submitting workflow completes with a
\* 2xx status and a body that parses as JSON, the workflow becomes Resulted
\* with exactly that body as result.
C11_ParseableSuccessResulted ==
  [][(Responded(ev') /\ Submitting /\ ev'.out.type = "http" /\ ev'.out.ok
        /\ ev'.out.body.kind \in {"null", "object"})
       => (Resulted' /\ result' = ev'.out.body.data)]_vars

\* C11 as amended: when the request of a Submitting workflow completes with
\* a 2xx status and a body that parses to a JSON object, the workflow
\* becomes Resulted with exactly that body as result; a FAKE prediction is
\* shown with the red theme and the deepfake-detected headline.
C11_ObjectSuccessResulted ==
  [][(Responded(ev') /\ Submitting /\ ev'.out.type = "http" /\ ev'.out.ok
        /\ ev'.out.body.kind = "object")
       => /\ Resulted'
          /\ result' = ev'.out.body.data
          /\ (ev'.out.body.data[1].prediction = "FAKE"
                => /\ getResultColor(result'[1].prediction)
                        = "from-red-400 to-rose-400"
                   /\ getResultBg(result'[1].prediction)
                        = "bg-red-500/10 border-red-500/30"
                   /\ Headline(result'[1].prediction)
                        = <<"", "Deepfake Detected", "">>)]_vars

\* a FAKE body for a.mp4 arrived and is the result
C11_Witness ==
  /\ Responded(ev)
  /\ ev.out.ok
  /\ ev.out.body.kind = "object"
  /\ result = ev.out.body.data
  /\ result[1].prediction = "FAKE"
  /\ result[1].filename = "a.mp4"
  /\ Resulted

\* C12: submit from Ready issues exactly one request, for the file that is
\* current at that moment, and makes the workflow Submitting; the step sets
\* the in-flight flag, leaves the error cleared and changes nothing else.
C12_SubmitFromReady ==
  [][(ev'.kind = "submit" /\ Ready)
       => /\ requests' = requests (+) SetToBag({[file |-> file[1], inst |-> inst]})
          /\ NumOutstanding' = 1
          /\ loading'
          /\ error' = NULL
          /\ Submitting'
          /\ UNCHANGED <<file, preview, result, dragActive,
                         selectedVisualization>>]_vars

\* a submit has put the request for b.webm in flight
C12_Witness ==
  /\ ev.kind = "submit"
  /\ Submitting
  /\ file # NULL
  /\ file[1].name = "b.webm"
  /\ Outstanding = {[file |-> file[1], inst |-> inst]}

\* the frames of a parsed success body that carries a non-empty list
FramesOf(res) ==
  IF res # NULL /\ res[1].has_frames THEN res[1].gradcam_frames ELSE <<>>

\* C13: whenever the result carries a non-empty list of evidence frames the
\* selected index is within it, so the displayed frame exists.
C13_SelectionInRange ==
  Len(FramesOf(result)) > 0
    => /\ selectedVisualization \in 0 .. Len(FramesOf(result)) - 1
       /\ DisplayedFrame # NULL

\* the last of three frames is selected
C13_Witness ==
  /\ Len(FramesOf(result)) = 3
  /\ selectedVisualization = 2
  /\ ev.kind = "frame"

\* C14: the selected index is 0 right after every arrival of a result, with
\* or without frames, and after every reset; no selection survives the
\* result it was made on.
C14_SelectionResets ==
  /\ [](result = NULL => selectedVisualization = 0)
  /\ [][(Responded(ev') /\ result' # NULL) => selectedVisualization' = 0]_vars
  /\ [][(ev'.kind \in {"clear", "another"}) => selectedVisualization' = 0]_vars

\* a result without frames has arrived in the second instance and the
\* selection is 0
C14_Witness ==
  /\ Responded(ev)
  /\ result # NULL
  /\ Len(FramesOf(result)) = 0
  /\ selectedVisualization = 0
  /\ inst = 2

\* C15: selecting frame i of a shown result displays frame i of the list as
\* returned and changes nothing but the selected index; a fresh result with
\* frames displays the first one.
C15_SelectFrameDisplays ==
  /\ [][(ev'.kind = "frame")
          => /\ DisplayedFrame' = Some(FramesOf(result)[ev'.idx + 1])
             /\ UNCHANGED <<file, preview, loading, result, error,
                            dragActive, requests>>]_vars
  /\ [][(Responded(ev') /\ Len(FramesOf(result')) > 0 /\ result' # result)
          => DisplayedFrame' = Some(FramesOf(result')[1])]_vars

\* selectFrame(2) on [f0, f1, f2] shows f2
C15_Witness ==
  /\ ev.kind = "frame"
  /\ ev.idx = 2
  /\ FramesOf(result) = <<F0, F1, F2>>
  /\ DisplayedFrame = Some(F2)

\* the result is present and its list of evidence frames is empty or missing
NoEvidence == result # NULL /\ Len(FramesOf(result)) = 0

\* C16: a result without evidence frames makes the workflow Resulted, not
\* Failed; while it is shown no frame is dereferenced, the frame count
\* reported is 0, no thumbnail is offered and the selected index stays.
C16_NoEvidence ==
  /\ [](NoEvidence
          => (~GradcamRendered /\ ~ThumbnailsRendered /\ FrameCount = 0))
  /\ [][(Responded(ev') /\ Submitting /\ NoEvidence') => Resulted']_vars
  /\ [][NoEvidence => ev'.kind # "frame"]_vars
  /\ [][(NoEvidence /\ NoEvidence') => UNCHANGED selectedVisualization]_vars

\* a result whose gradcam_frames field is missing is shown
C16_Witness ==
  /\ Responded(ev)
  /\ NoEvidence
  /\ ~result[1].has_frames
  /\ Resulted
  /\ FrameCount = 0

\* how many of the five workflow states hold
StatesHolding ==
  Cardinality({k \in 1 .. 5 : <<Idle, Ready, Submitting, Resulted, Failed>>[k]})

\* C17: in every reachable state exactly one of Idle, Ready, Submitting,
\* Resulted and Failed holds, and the state of a fresh workflow is Idle.
C17_ExactlyOneState ==
  /\ StatesHolding = 1
  /\ (ev.kind \in {"init", "start"} => Idle)

\* C18: the in-flight flag is true exactly while a request of the instance
\* is outstanding, and every Submitting state is followed, unless the view
\* is left, by a state with no request in flight that is Resulted or Failed.
C18_SubmittingSettles ==
  /\ [](loading <=> Outstanding # {})
  /\ (Submitting ~> (~showUpload \/ (~InFlight /\ (Resulted \/ Failed))))

\* the upload view was left for the last time the bound MaxInst allows
ViewsExhausted == ~showUpload /\ inst = MaxInst

\* C19: no state is terminal: from every reachable state, also after a
\* validation, transport or service error, user actions and response
\* arrivals lead to Idle and lead to Ready.
C19_Recoverable ==
  /\ []<>Idle
  /\ []<>(Ready \/ ViewsExhausted)

\* a submission has failed and its file is still held
C19_Witness ==
  /\ Responded(ev)
  /\ Failed
  /\ file # NULL
  /\ ev.out.type = "network"

\* how many requests a step issues: those of requests' that requests does
\* not hold
NumIssued == BagCardinality(requests' (-) requests)

\* the step is a submit made with a file held, no request in flight and no
\* result shown
AcceptedSubmit ==
  /\ ev'.kind = "submit"
  /\ file # NULL
  /\ ~InFlight
  /\ result = NULL

\* C20: a step issues one request if it is an accepted submit and none
\* otherwise, so the requests issued are as many as the accepted submits; in
\* particular the settling of a failed request issues none.
C20_NoAutomaticRetry ==
  [][NumIssued = (IF AcceptedSubmit THEN 1 ELSE 0)]_vars

\* a request has failed, its file is still held and no request is out
C20_Witness ==
  /\ Responded(ev)
  /\ FailedOutcome(ev.out)
  /\ file # NULL
  /\ file[1] = ev.req[1].file
  /\ requests = EmptyBag

\* the events that select a file, reset the workflow, or enter or leave the view
SelectsOrResets(e) ==
  e.kind \in {"pick", "drop", "clear", "another", "start", "back"}

\* C21: a failed submission leaves the submitted file current: no step other
\* than a selection or a reset changes the file, so the file of a request
\* that fails untouched is still held, with the form shown and submit
\* enabled; a submit made then issues one new request for that same file and
\* clears the error.
C21_ResubmitAfterFailure ==
  /\ [][~SelectsOrResets(ev') => UNCHANGED file]_vars
  /\ [][(Responded(ev') /\ FailedOutcome(ev'.out)
           /\ file = Some(ev'.req[1].file))
          => /\ file' = Some(ev'.req[1].file)
             /\ Failed'
             /\ FormRendered'
             /\ ~SubmitDisabled']_vars
  /\ [][(ev'.kind = "submit" /\ Failed /\ file # NULL)
          => /\ requests' = requests (+) SetToBag({[file |-> file[1], inst |-> inst]})
             /\ error' = NULL
             /\ loading'
             /\ UNCHANGED <<file, result>>]_vars

\* the request for b.webm was refused by the service; b.webm is still held
\* and the submit button is enabled
C21_Witness ==
  /\ Responded(ev)
  /\ ev.out.type = "http"
  /\ ~ev.out.ok
  /\ error = Some("file too large")
  /\ file # NULL
  /\ file[1].name = "b.webm"
  /\ ev.req[1].file = file[1]
  /\ FormRendered
  /\ ~SubmitDisabled

\* the three categories of the service's verdict
Categories == {"REAL", "FAKE", "SUSPICIOUS"}

\* the accent a gradient or background class string belongs to
Accent(class) ==
  CASE class \in {"from-green-400 to-emerald-400",
                  "bg-green-500/10 border-green-500/30"} -> "green"
    [] class \in {"from-red-400 to-rose-400",
                  "bg-red-500/10 border-red-500/30"} -> "red"
    [] class \in {"from-yellow-400 to-orange-400",
                  "bg-yellow-500/10 border-yellow-500/30"} -> "yellow"
    [] class \in {"from-cyan-400 to-purple-400",
                  "bg-white/5 border-white/10"} -> "neutral"
    [] OTHER -> "none"

\* the accent and headline each category is to be shown with
Presentation(p) ==
  CASE p = "REAL" -> <<"green", <<"Content Verified", "", "">>>>
    [] p = "FAKE" -> <<"red", <<"", "Deepfake Detected", "">>>>
    [] p = "SUSPICIOUS" -> <<"yellow", <<"", "", "Suspicious Content">>>>
    [] OTHER -> <<"neutral", <<"", "", "">>>>

\* C22: every result shown has a theme: REAL, FAKE and SUSPICIOUS are shown
\* green, red and yellow with their own headlines, any other prediction with
\* the neutral theme; gradient and background agree on the accent; and a
\* success body with an unrecognised prediction makes the workflow Resulted.
C22_MappingTotal ==
  /\ [](ResultRendered
          => LET p == result[1].prediction
             IN /\ Accent(getResultColor(p)) = Presentation(p)[1]
                /\ Accent(getResultBg(p)) = Presentation(p)[1]
                /\ Headline(p) = Presentation(p)[2])
  /\ [][(Responded(ev') /\ Submitting /\ ev'.out.type = "http" /\ ev'.out.ok
           /\ ev'.out.body.kind = "object"
           /\ ev'.out.body.data[1].prediction \notin Categories)
          => (Resulted' /\ ~Failed'
              /\ result'[1].prediction = ev'.out.body.data[1].prediction)]_vars

\* a result whose prediction is the lower-case "fake" is shown
C22_Witness ==
  /\ Responded(ev)
  /\ Resulted
  /\ ResultRendered
  /\ result[1].prediction = "fake"
  /\ getResultBg(result[1].prediction) = "bg-white/5 border-white/10"

\* the success bodies of any file
AllResults == UNION {ResultsFor(f.name) : f \in Files}

\* C23: the guidance shown with a result is a fixed list of bullets that
\* depends on the category alone, not on the confidence, and the lists of
\* REAL, FAKE and SUSPICIOUS are pairwise different.
C23_GuidancePerCategory ==
  (ResultRendered /\ result[1].prediction \in Categories)
    => /\ Len(Interpretation(result[1])) > 0
       /\ \A r \in AllResults :
            /\ r.prediction = result[1].prediction
                 => Interpretation(r) = Interpretation(result[1])
            /\ (r.prediction \in Categories
                  /\ r.prediction # result[1].prediction)
                 => Interpretation(r) # Interpretation(result[1])

\* text is x (in ten-thousandths) times 100, rounded to a nearest tenth and
\* written with one decimal digit and a percent sign
RoundedPercent(x, text) ==
  \E n \in 0 .. 1000 :
    /\ 10 * n - x \in -5 .. 5
    /\ text = ToString(n \div 10) \o "." \o ToString(n % 10) \o "%"

\* C24: the confidence of the result shown, and the score of the frame
\* shown, are rendered as the value times 100 rounded to one decimal place
\* and followed by a percent sign; 0.9847 is "98.5%" and 0.972 is "97.2%".
C24_PercentOneDecimal ==
  /\ ResultRendered
       => /\ RoundedPercent(result[1].confidence, ConfidenceText)
          /\ (result[1].confidence = 9847 => ConfidenceText = "98.5%")
          /\ (result[1].confidence = 9720 => ConfidenceText = "97.2%")
  /\ GradcamRendered
       => /\ RoundedPercent(DisplayedFrame[1].score, ScoreText)
          /\ (DisplayedFrame[1].score = 9847 => ScoreText = "98.5%")
          /\ (DisplayedFrame[1].score = 9720 => ScoreText = "97.2%")

\* a result of confidence 0.972 is shown with its frame of score 0.9847
C24_Witness ==
  /\ ResultRendered
  /\ GradcamRendered
  /\ result[1].confidence = 9720
  /\ DisplayedFrame = Some(F0)
  /\ ConfidenceText = "97.2%"
  /\ ScoreText = "98.5%"

\* everything of the workflow but the drag flag
Durable ==
  <<showUpload, inst, file, preview, loading, result, error,
    selectedVisualization, requests, reads>>

\* C25: drag-enter and drag-over set the drag flag, drag-leave and drop
\* clear it; the three drag events change nothing else; and what a selection
\* does to file, result and error is fixed by the candidate alone, whatever
\* the drag flag is.
C25_DragFlagTransient ==
  /\ [][ev'.kind \in {"dragenter", "dragover"}
          => (dragActive' /\ UNCHANGED Durable)]_vars
  /\ [][ev'.kind = "dragleave" => (~dragActive' /\ UNCHANGED Durable)]_vars
  /\ [][ev'.kind = "drop" => ~dragActive']_vars
  /\ [][ev'.kind = "pick" => UNCHANGED dragActive]_vars
  /\ [][Selected(ev')
          => IF DeclaredVideo(ev'.cand)
               THEN file' = ev'.cand /\ error' = NULL /\ result' = NULL
               ELSE error' = Some(ValidationMsg) /\ UNCHANGED <<file, result>>]_vars

\* a file was validated and accepted through the picker while the drag flag
\* was set
C25_Witness ==
  /\ ev.kind = "pick"
  /\ DeclaredVideo(ev.cand)
  /\ dragActive
  /\ file = ev.cand
  /\ error = NULL

\* C26: a result present together with a current file is the response to a
\* request submitted with that file: the response to a request whose file
\* has since been replaced does not become the result.
C26_ResultOfCurrentFile ==
  /\ [][(Responded(ev') /\ result' # NULL /\ file' # NULL)
          => ev'.req[1].file = file'[1]]_vars
  /\ []((result # NULL /\ file # NULL) => result[1].filename = file[1].name)

\* C27: while a request is outstanding the form with its picker, and the X
\* control when a file is held, stay available; a valid selection replaces
\* the file and the X control clears it at once; no selection or reset
\* cancels the request or issues another; and submit is disabled, and a
\* submit attempt does nothing, until the request settles.
C27_ResponsiveInFlight ==
  /\ [](Outstanding # {}
          => /\ FormRendered
             /\ (file # NULL => ClearRendered)
             /\ SubmitDisabled)
  /\ [][(Outstanding # {} /\ Selected(ev') /\ DeclaredVideo(ev'.cand))
          => file' = ev'.cand]_vars
  /\ [][(Outstanding # {} /\ ev'.kind = "clear") => file' = NULL]_vars
  /\ [][(Outstanding # {}
           /\ (Selected(ev') \/ ev'.kind \in {"clear", "another", "submit"}))
          => UNCHANGED <<requests, loading>>]_vars

\* the X control was used while the request was outstanding: the file is
\* gone, the request is still out and submit is disabled
C27_Witness ==
  /\ ev.kind = "clear"
  /\ file = NULL
  /\ NumOutstanding = 1
  /\ loading
  /\ SubmitDisabled

\* C28: nothing of a discarded file remains: the preview is absent whenever
\* no file is held, and a preview that is present is the content of the
\* current file, also after a late file-read callback.
C28_PreviewOfCurrentFile ==
  /\ (file = NULL => preview = NULL)
  /\ (preview # NULL => (file # NULL /\ preview = Some(file[1].name)))

\* the workflow without the preview and its pending loads
Workflow ==
  [show |-> showUpload, inst |-> inst, file |-> file, loading |-> loading,
   result |-> result, error |-> error, sel |-> selectedVisualization,
   requests |-> requests]

\* a workflow just mounted or just unmounted
Fresh(w, shown, n) ==
  [w EXCEPT !.show = shown, !.inst = n, !.file = NULL, !.loading = FALSE,
            !.result = NULL, !.error = NULL, !.sel = 0]

\* what event e makes of workflow w, told from w and e alone
After(w, e) ==
  CASE e.kind = "start" -> Fresh(w, TRUE, w.inst + 1)
    [] e.kind = "back" -> Fresh(w, FALSE, w.inst)
    [] Selected(e) ->
         IF DeclaredVideo(e.cand)
           THEN [w EXCEPT !.file = e.cand, !.error = NULL, !.result = NULL]
           ELSE [w EXCEPT !.error = Some(ValidationMsg)]
    [] e.kind = "submit" ->
         IF w.file # NULL /\ ~w.loading /\ w.result = NULL
           THEN [w EXCEPT !.loading = TRUE, !.error = NULL,
                          !.requests = @ (+) SetToBag({[file |-> w.file[1],
                                                       inst |-> w.inst]})]
           ELSE w
    [] e.kind = "response" ->
         LET o == e.out
             settled == [w EXCEPT !.loading = FALSE,
                                  !.requests = @ (-) SetToBag({e.req[1]})]
         IN IF o.type = "http" /\ o.ok /\ o.body.kind = "object"
              THEN [settled EXCEPT !.result = o.body.data,
                                   !.sel = IF Len(FramesOf(o.body.data)) > 0
                                             THEN 0 ELSE @]
            ELSE IF o.type = "http" /\ o.ok /\ o.body.kind = "null"
              THEN [settled EXCEPT !.result = NULL,
                                   !.error = Some(Caught(Thrown(o)[1]))]
            ELSE [settled EXCEPT !.error = Some(Caught(Thrown(o)[1]))]
    [] e.kind = "stale" -> [w EXCEPT !.requests = @ (-) SetToBag({e.req[1]})]
    [] e.kind = "clear" -> [w EXCEPT !.file = NULL, !.result = NULL]
    [] e.kind = "another" ->
         [w EXCEPT !.file = NULL, !.result = NULL, !.error = NULL, !.sel = 0]
    [] e.kind = "frame" -> [w EXCEPT !.sel = e.idx]
    [] OTHER -> w

\* C29: the preview never influences the workflow: every step takes file,
\* in-flight flag, result, error, frame selection and requests to values
\* fixed by their old values and the event alone, a completed preview load
\* changes none of them, and a request carries the file, never the preview.
\* Two runs given the same events then agree on them at every step,
\* whenever and whether their preview loads complete.
C29_PreviewNonInterference ==
  /\ [][Workflow' = After(Workflow, ev')]_vars
  /\ [][ev'.kind = "read" => UNCHANGED Workflow]_vars
  /\ [](\A r \in BagToSet(requests) :
          DOMAIN r = {"file", "inst"} /\ r.file \in Files)

\* a submit was accepted before the preview of its file was loaded
C29_Witness ==
  /\ ev.kind = "submit"
  /\ loading
  /\ preview = NULL
  /\ file # NULL
  /\ BagIn(file[1], reads)
  /\ BagIn([file |-> file[1], inst |-> inst], requests)

\* the state of the frame-capable Upload with the frame selection left out
WithoutSelection ==
  [file |-> file, preview |-> preview, loading |-> loading,
   result |-> result, error |-> error, dragActive |-> dragActive]

\* the values C30 compares
Shared(v) == <<v.file, v.loading, v.result, v.error, v.dragActive>>

\* C30: with the frame selection left out the two implementations are
\* equivalent: from equal values of (file, in-flight flag, result, error,
\* drag flag) every event takes both to equal values, so on every sequence
\* of events both go through the same sequence of these values.
C30_ImplementationsEquivalent ==
  [][Shared(WithoutSelection')
       = Shared(UploadNoFrames(WithoutSelection, ev'))]_vars

\* file, result, error and pending loads after the one validation of a
\* candidate file c, told from their old values and c alone
Acquired(c) ==
  IF DeclaredVideo(c)
    THEN <<c, NULL, NULL, reads (+) SetToBag({c[1]})>>
    ELSE <<file, result, Some(ValidationMsg), reads>>

\* C31: picking and dropping a candidate file are offered in the same
\* states and give the same file, result and error, the drop clearing the
\* drag flag besides and the pick leaving it; neither changes anything
\* else; a drop that carries no file changes nothing but the drag flag.
C31_PickerAndDropAgree ==
  /\ [](\A c \in Candidates \ {NULL} :
          (ENABLED Pick(c)) <=> (ENABLED handleDrop(c)))
  /\ [][(ev'.kind \in {"pick", "drop"} /\ ev'.cand # NULL)
          => /\ <<file', result', error', reads'>> = Acquired(ev'.cand)
             /\ dragActive' = (IF ev'.kind = "drop" THEN FALSE ELSE dragActive)
             /\ UNCHANGED <<showUpload, inst, preview, loading,
                            selectedVisualization, requests>>]_vars
  /\ [][(ev'.kind = "drop" /\ ev'.cand = NULL)
          => (~dragActive' /\ UNCHANGED Durable)]_vars

\* b.webm was dropped over a held a.mp4 whose preview was loaded: it is the
\* file now, as if picked, and the drag flag is down
C31_Witness ==
  /\ ev.kind = "drop"
  /\ DeclaredVideo(ev.cand)
  /\ file = ev.cand
  /\ file[1].name = "b.webm"
  /\ preview = Some("a.mp4")
  /\ error = NULL
  /\ ~dragActive

\* the state of the mounted Upload
Instance ==
  <<file, preview, loading, result, error, dragActive, selectedVisualization>>

\* C32: at most one workflow instance exists: the landing page and the
\* upload view are never shown together; every entry into the upload view
\* starts in Idle with a new instance, whatever the previous one was left
\* in; and the settling of a request of a previous, left instance changes
\* nothing of the current instance, whose state only its own requests set.
C32_OneInstance ==
  /\ [](UploadRendered # LandingRendered)
  /\ [][ev'.kind = "start"
          => (UploadRendered' /\ Idle' /\ inst' = inst + 1
              /\ selectedVisualization' = 0 /\ preview' = NULL
              /\ ~dragActive')]_vars
  /\ [][ev'.kind = "stale"
          => (ev'.req[1].inst # inst' \/ ~UploadRendered') /\ UNCHANGED Instance]_vars
  /\ [][ev'.kind = "response"
          => (ev'.req[1].inst = inst' /\ UploadRendered')]_vars

\* the request of the first instance settled while the second instance held
\* a file and had a request of its own in flight
C32_Witness ==
  /\ ev.kind = "stale"
  /\ ev.req[1].inst = 1
  /\ inst = 2
  /\ UploadRendered
  /\ file # NULL
  /\ loading
  /\ result = NULL
  /\ error = NULL

\* the items of the FAQ whose answer is shown
OpenItems == {i \in 0 .. NumFaqs - 1 : AnswerRendered(i)}

\* C33: in the FAQ at most one item is open at any time and none when the
\* section appears; toggling the open item closes it, toggling another item
\* opens that one and closes the one that was open.
C33_OneFaqOpen ==
  /\ [](Cardinality(OpenItems) <= 1)
  /\ [](ev.kind \in {"init", "back"} => OpenItems = {})
  /\ [][ev'.kind = "toggle"
          => OpenItems' = (IF ev'.idx \in OpenItems THEN {} ELSE {ev'.idx})]_vars

\* item 3 was toggled on the landing page the user came back to, and it is
\* the open item
C33_Witness ==
  /\ ev.kind = "toggle"
  /\ ev.idx = 3
  /\ OpenItems = {3}
  /\ inst = 1

====
